---- MODULE Spec2Model ----
(***************************************************************************)
(* Model of the PNG chunk-skipping io.Reader decorator of                  *)
(* cmd/gitlab-resize-image/png/reader.go (the streaming Reader with the    *)
(* [4096]byte scratch buffer and the integer bytesRemaining counter).      *)
(*                                                                         *)
(* Bytes are naturals 0..255.  The underlying io.Reader is a finite byte   *)
(* sequence `input` read sequentially from offset `rd.pos`; once its data  *)
(* is exhausted every read of it returns (0, srcErr), where srcErr is      *)
(* io.EOF or some other I/O error (a source never returns bytes and an     *)
(* error in one call).  Errors are the strings "nil", "EOF",               *)
(* "ErrUnexpectedEOF" and "IOErr".  int is 64 bits wide, uint32 is 32.     *)
(***************************************************************************)
EXTENDS Integers, Sequences, FiniteSets, TLC

VARIABLES
    input,       \* the bytes the underlying source holds
    srcErr,      \* what the underlying source returns once exhausted
    rd,          \* the Reader: state, bytesRemaining, buffer, and the source offset
    out,         \* every byte written into the caller's buffers so far, in order
    outIdx,      \* for each byte of out, its 1-based offset in input
    last,        \* the last Read call: buffer size, results, and the Reader before it
    magicReads,  \* number of magic-prefix read attempts so far
    allWide,     \* every Read call so far had a buffer of at least 8 bytes
    phase,       \* "free", or the pass of the two-pass comparison run
    first,       \* output of the first pass of the comparison run
    zeroReads,   \* Read calls so far that returned (0, nil); 2 stands for more
    cr,          \* the countReadCloser, its callers and the body it wraps
    wc           \* the two whole-chunk filters run beside the Reader

vars ==
    <<input, srcErr, rd, out, outIdx, last, magicReads, allWide, phase, first,
      zeroReads, cr, wc>>

-----------------------------------------------------------------------------
(* Program constants *)

stateReadMagic == 0
stateReadNextChunk == 1
stateReadCurrentChunk == 2
stateDone == 3

crcLen == 4
pngMagicLen == 8
chunkHeaderLen == 8
bufferLen == 4096
\* a uint32 is held as two 16-bit halves [hi, lo]
Half == 65536

pngMagic == <<137, 80, 78, 71, 13, 10, 26, 10>>
iCCP == <<105, 67, 67, 80>>
PLTE == <<80, 76, 84, 69>>
IDAT == <<73, 68, 65, 84>>
IEND == <<73, 69, 78, 68>>
IHDR == <<73, 72, 68, 82>>

-----------------------------------------------------------------------------
(* Bounds of the model *)

MaxChunks == 2
MaxChunkLen == 1
MaxMagicReads == 2

-----------------------------------------------------------------------------
(* Helpers on sequences *)

\* mutant: the comparison is inverted
minInverted(a, b) == IF a < b THEN b ELSE a

min(a, b) == IF a < b THEN a ELSE b

Take(s, k) == SubSeq(s, 1, IF k < Len(s) THEN k ELSE Len(s))
Range(a, k) == [i \in 1..k |-> a + i]

\* copy(dst, src) of Go: the bytes that land in a destination of dstLen bytes
copy(dstLen, src) == Take(src, dstLen)

\* binary.BigEndian.Uint32: the uint32 of four bytes, as its halves
BigEndianUint32(b) == [hi |-> b[1] * 256 + b[2], lo |-> b[3] * 256 + b[4]]

\* x + k in uint32 arithmetic (wraps at 2^32), for 0 <= k < Half
AddUint32(x, k) ==
    [hi |-> (x.hi + (x.lo + k) \div Half) % Half, lo |-> (x.lo + k) % Half]

\* int(x) on a 64-bit build
IntOf(x) == x.hi * Half + x.lo

\* the four big-endian bytes of a length below 2^31
PutUint32(v) == << (v \div 16777216) % 256, (v \div Half) % 256,
                   (v \div 256) % 256, v % 256 >>

-----------------------------------------------------------------------------
(* The underlying source and the io helpers the Reader calls on it.         *)
(* Each returns [n, err, data, pos]: the count, the error, the bytes read   *)
(* and the source offset afterwards.                                        *)

Avail(pos) == Len(input) - pos

\* r.underlying.Read(p) with len(p) = len.  A source may return fewer bytes
\* than asked for (choice = 1: a single byte).  With an empty p a source at
\* its end may answer (0, nil) or (0, its error) (choice selects).
underlyingRead(pos, len, choice) ==
    IF len = 0
    THEN [n |-> 0, data |-> <<>>, pos |-> pos,
          err |-> IF Avail(pos) = 0 /\ choice = 1 THEN srcErr ELSE "nil"]
    ELSE IF Avail(pos) = 0
    THEN [n |-> 0, data |-> <<>>, pos |-> pos, err |-> srcErr]
    ELSE LET k == IF choice = 1 THEN 1
                  ELSE IF len < Avail(pos) THEN len ELSE Avail(pos)
         IN  [n |-> k, data |-> SubSeq(input, pos + 1, pos + k),
              pos |-> pos + k, err |-> "nil"]

\* io.ReadFull(r.underlying, buf) with len(buf) = want: loops over short reads
\* until buf is full; io.EOF after a partial read becomes io.ErrUnexpectedEOF.
ReadFull(pos, want) ==
    IF Avail(pos) >= want
    THEN [n |-> want, data |-> SubSeq(input, pos + 1, pos + want),
          pos |-> pos + want, err |-> "nil"]
    ELSE [n |-> Avail(pos), data |-> SubSeq(input, pos + 1, Len(input)),
          pos |-> Len(input),
          err |-> IF srcErr = "EOF" /\ Avail(pos) > 0
                  THEN "ErrUnexpectedEOF" ELSE srcErr]

\* io.CopyN(ioutil.Discard, r.underlying, count): consumes count bytes; a
\* source that ends early yields io.EOF, any other error is passed on.
CopyN(pos, count) ==
    IF Avail(pos) >= count
    THEN [n |-> count, data |-> <<>>, pos |-> pos + count, err |-> "nil"]
    ELSE [n |-> Avail(pos), data |-> <<>>, pos |-> Len(input), err |-> srcErr]

-----------------------------------------------------------------------------
(* The Reader.  rd = [state, bytesRemaining, buffer, pos]; buffer is the    *)
(* first chunkHeaderLen bytes of r.buffer (the only ones read back), pos   *)
(* the offset of r.underlying.  Every method returns                        *)
(* [rd, n, err, wr, wrIdx, op]: the Reader afterwards, the returned count   *)
(* and error, the bytes written into dst with their offsets in input,       *)
(* and the step that ended the call.                                        *)

ZeroBuffer == [i \in 1..chunkHeaderLen |-> 0]

NewReader ==
    [state |-> stateReadMagic, bytesRemaining |-> 0, buffer |-> ZeroBuffer, pos |-> 0]

\* bytes `data` stored at r.buffer[0:], seen through its first 8 bytes
Store(buffer, data) ==
    [i \in 1..chunkHeaderLen |-> IF i <= Len(data) THEN data[i] ELSE buffer[i]]

\* mutant: a stream that is not PNG is left in stateReadMagic
readMagicStaysOnMismatch(r, dstLen) ==
    LET rf == ReadFull(r.pos, pngMagicLen)
        magicBytes == rf.data
        r1 == [r EXCEPT !.pos = rf.pos, !.buffer = Store(r.buffer, rf.data)]
    IN  IF rf.err # "nil"
        THEN [rd |-> r1, n |-> rf.n, err |-> rf.err,
              wr |-> <<>>, wrIdx |-> <<>>, op |-> "magic"]
        ELSE [rd |-> [r1 EXCEPT !.state = IF magicBytes # pngMagic
                                          THEN stateReadMagic
                                          ELSE stateReadNextChunk],
              n |-> Len(copy(dstLen, magicBytes)), err |-> "nil",
              wr |-> copy(dstLen, magicBytes),
              wrIdx |-> copy(dstLen, Range(r.pos, pngMagicLen)),
              op |-> "magic"]

\* mutant: only the first half of the magic is compared
readMagicComparesHalf(r, dstLen) ==
    LET rf == ReadFull(r.pos, pngMagicLen)
        magicBytes == rf.data
        r1 == [r EXCEPT !.pos = rf.pos, !.buffer = Store(r.buffer, rf.data)]
    IN  IF rf.err # "nil"
        THEN [rd |-> r1, n |-> rf.n, err |-> rf.err,
              wr |-> <<>>, wrIdx |-> <<>>, op |-> "magic"]
        ELSE [rd |-> [r1 EXCEPT !.state = IF SubSeq(magicBytes, 1, 4)
                                               # SubSeq(pngMagic, 1, 4)
                                          THEN stateDone
                                          ELSE stateReadNextChunk],
              n |-> Len(copy(dstLen, magicBytes)), err |-> "nil",
              wr |-> copy(dstLen, magicBytes),
              wrIdx |-> copy(dstLen, Range(r.pos, pngMagicLen)),
              op |-> "magic"]

readMagic(r, dstLen) ==
    LET rf == ReadFull(r.pos, pngMagicLen)
        magicBytes == rf.data
        r1 == [r EXCEPT !.pos = rf.pos, !.buffer = Store(r.buffer, rf.data)]
    IN  IF rf.err # "nil"
        THEN [rd |-> r1, n |-> rf.n, err |-> rf.err,
              wr |-> <<>>, wrIdx |-> <<>>, op |-> "magic"]
        ELSE [rd |-> [r1 EXCEPT !.state = IF magicBytes # pngMagic
                                          THEN stateDone
                                          ELSE stateReadNextChunk],
              n |-> Len(copy(dstLen, magicBytes)), err |-> "nil",
              wr |-> copy(dstLen, magicBytes),
              wrIdx |-> copy(dstLen, Range(r.pos, pngMagicLen)),
              op |-> "magic"]

\* mutant: a header read in part is taken as read
readChunkLengthAndTypeAcceptsPart(r) ==
    LET rf == ReadFull(r.pos, chunkHeaderLen)
        r1 == [r EXCEPT !.pos = rf.pos, !.buffer = Store(r.buffer, rf.data)]
    IN  IF rf.err # "nil" /\ rf.n = 0
        THEN [rd |-> r1, chunkLen |-> [hi |-> 0, lo |-> 0], chunkTyp |-> <<>>, err |-> rf.err]
        ELSE [rd |-> r1,
              chunkLen |-> BigEndianUint32(SubSeq(r1.buffer, 1, 4)),
              chunkTyp |-> SubSeq(r1.buffer, 5, chunkHeaderLen),
              err |-> "nil"]

readChunkLengthAndType(r) ==
    LET rf == ReadFull(r.pos, chunkHeaderLen)
        r1 == [r EXCEPT !.pos = rf.pos, !.buffer = Store(r.buffer, rf.data)]
    IN  IF rf.err # "nil"
        THEN [rd |-> r1, chunkLen |-> [hi |-> 0, lo |-> 0], chunkTyp |-> <<>>, err |-> rf.err]
        ELSE [rd |-> r1,
              chunkLen |-> BigEndianUint32(SubSeq(r1.buffer, 1, 4)),
              chunkTyp |-> SubSeq(r1.buffer, 5, chunkHeaderLen),
              err |-> "nil"]

\* mutant: the counter is not reduced by the bytes copied
copyChunkDataKeepsCount(r, dstLen, srcLen, srcOff, remainingBytes) ==
    LET lastByte == min(min(remainingBytes, srcLen), dstLen)
        rf == ReadFull(r.pos, lastByte)
        r1 == [r EXCEPT !.pos = rf.pos,
                        !.buffer = IF srcOff = 0 THEN Store(r.buffer, rf.data)
                                   ELSE r.buffer]
        m == Len(copy(dstLen, rf.data))
    IN  IF rf.err # "nil"
        THEN [rd |-> r1, n |-> rf.n, err |-> rf.err,
              wr |-> <<>>, wrIdx |-> <<>>, op |-> "payload"]
        ELSE [rd |-> IF m < remainingBytes
                     THEN [r1 EXCEPT !.bytesRemaining = remainingBytes,
                                     !.state = stateReadCurrentChunk]
                     ELSE [r1 EXCEPT !.bytesRemaining = 0,
                                     !.state = stateReadNextChunk],
              n |-> m, err |-> "nil",
              wr |-> copy(dstLen, rf.data),
              wrIdx |-> copy(dstLen, Range(r.pos, rf.n)),
              op |-> "payload"]

\* mutant: the counter is left set when the record is complete
copyChunkDataLeavesCount(r, dstLen, srcLen, srcOff, remainingBytes) ==
    LET lastByte == min(min(remainingBytes, srcLen), dstLen)
        rf == ReadFull(r.pos, lastByte)
        r1 == [r EXCEPT !.pos = rf.pos,
                        !.buffer = IF srcOff = 0 THEN Store(r.buffer, rf.data)
                                   ELSE r.buffer]
        m == Len(copy(dstLen, rf.data))
    IN  IF rf.err # "nil"
        THEN [rd |-> r1, n |-> rf.n, err |-> rf.err,
              wr |-> <<>>, wrIdx |-> <<>>, op |-> "payload"]
        ELSE [rd |-> IF m < remainingBytes
                     THEN [r1 EXCEPT !.bytesRemaining = remainingBytes - m,
                                     !.state = stateReadCurrentChunk]
                     ELSE [r1 EXCEPT !.bytesRemaining = remainingBytes,
                                     !.state = stateReadNextChunk],
              n |-> m, err |-> "nil",
              wr |-> copy(dstLen, rf.data),
              wrIdx |-> copy(dstLen, Range(r.pos, rf.n)),
              op |-> "payload"]

\* mutant: the room left in dst does not limit the bytes read
copyChunkDataIgnoresDst(r, dstLen, srcLen, srcOff, remainingBytes) ==
    LET lastByte == min(remainingBytes, srcLen)
        rf == ReadFull(r.pos, lastByte)
        r1 == [r EXCEPT !.pos = rf.pos,
                        !.buffer = IF srcOff = 0 THEN Store(r.buffer, rf.data)
                                   ELSE r.buffer]
        m == Len(copy(dstLen, rf.data))
    IN  IF rf.err # "nil"
        THEN [rd |-> r1, n |-> rf.n, err |-> rf.err,
              wr |-> <<>>, wrIdx |-> <<>>, op |-> "payload"]
        ELSE [rd |-> IF m < remainingBytes
                     THEN [r1 EXCEPT !.bytesRemaining = remainingBytes - m,
                                     !.state = stateReadCurrentChunk]
                     ELSE [r1 EXCEPT !.bytesRemaining = 0,
                                     !.state = stateReadNextChunk],
              n |-> m, err |-> "nil",
              wr |-> copy(dstLen, rf.data),
              wrIdx |-> copy(dstLen, Range(r.pos, rf.n)),
              op |-> "payload"]

\* srcLen = len(src), srcOff = offset of src in r.buffer
copyChunkData(r, dstLen, srcLen, srcOff, remainingBytes) ==
    LET lastByte == min(min(remainingBytes, srcLen), dstLen)
        rf == ReadFull(r.pos, lastByte)
        r1 == [r EXCEPT !.pos = rf.pos,
                        !.buffer = IF srcOff = 0 THEN Store(r.buffer, rf.data)
                                   ELSE r.buffer]
        m == Len(copy(dstLen, rf.data))
    IN  IF rf.err # "nil"
        THEN [rd |-> r1, n |-> rf.n, err |-> rf.err,
              wr |-> <<>>, wrIdx |-> <<>>, op |-> "payload"]
        ELSE [rd |-> IF m < remainingBytes
                     THEN [r1 EXCEPT !.bytesRemaining = remainingBytes - m,
                                     !.state = stateReadCurrentChunk]
                     ELSE [r1 EXCEPT !.bytesRemaining = 0,
                                     !.state = stateReadNextChunk],
              n |-> m, err |-> "nil",
              wr |-> copy(dstLen, rf.data),
              wrIdx |-> copy(dstLen, Range(r.pos, rf.n)),
              op |-> "payload"]

\* int(chunkLen + crcLen): the addition is done in uint32
fullChunkLenOf(chunkLen) == IntOf(AddUint32(chunkLen, crcLen))

\* mutant: the state is set without the record being consumed
caseICCPNoConsume(r1, fullChunkLen) ==
    [rd |-> [r1 EXCEPT !.state = stateDone], n |-> 0, err |-> "nil",
     wr |-> <<>>, wrIdx |-> <<>>, op |-> "discard"]

\* mutant: the trailing CRC of the record is not consumed
caseICCPKeepsCrc(r1, fullChunkLen) ==
    LET cn == CopyN(r1.pos, IF fullChunkLen < crcLen THEN 0 ELSE fullChunkLen - crcLen)
    IN  [rd |-> [r1 EXCEPT !.pos = cn.pos, !.state = stateDone],
         n |-> 0, err |-> cn.err,
         wr |-> <<>>, wrIdx |-> <<>>, op |-> "discard"]

\* mutant: a failed discard returns before the state is set
caseICCPReturnsEarly(r1, fullChunkLen) ==
    LET cn == CopyN(r1.pos, fullChunkLen)
    IN  [rd |-> [r1 EXCEPT !.pos = cn.pos,
                           !.state = IF cn.err # "nil" THEN r1.state ELSE stateDone],
         n |-> 0, err |-> cn.err, wr |-> <<>>, wrIdx |-> <<>>, op |-> "discard"]

\* mutant: after the discard the Reader goes on looking for records
caseICCPKeepsScanning(r1, fullChunkLen) ==
    LET cn == CopyN(r1.pos, fullChunkLen)
    IN  [rd |-> [r1 EXCEPT !.pos = cn.pos, !.state = stateReadNextChunk],
         n |-> 0, err |-> cn.err,
         wr |-> <<>>, wrIdx |-> <<>>, op |-> "discard"]

\* case "iCCP": r1 is the Reader after the header read
caseICCP(r1, fullChunkLen) ==
    LET cn == CopyN(r1.pos, fullChunkLen)
    IN  [rd |-> [r1 EXCEPT !.pos = cn.pos, !.state = stateDone],
         n |-> 0, err |-> cn.err,
         wr |-> <<>>, wrIdx |-> <<>>, op |-> "discard"]

\* case "PLTE", "IDAT", "IEND": r is the Reader before the header read
caseTerminal(r, r1, dstLen, choice) ==
    LET head == SubSeq(r1.buffer, 1, chunkHeaderLen)
        n == Len(copy(dstLen, head))
        ur == underlyingRead(r1.pos, dstLen - n, choice)
    IN  [rd |-> [r1 EXCEPT !.pos = ur.pos, !.state = stateDone],
         n |-> n + ur.n, err |-> ur.err,
         wr |-> copy(dstLen, head) \o ur.data,
         wrIdx |-> copy(dstLen, Range(r.pos, chunkHeaderLen)) \o Range(r1.pos, ur.n),
         op |-> "terminal"]

\* default case
caseDefault(r, r1, dstLen, fullChunkLen) ==
    LET bufferHead == SubSeq(r1.buffer, 1, chunkHeaderLen)
        n == Len(copy(dstLen, bufferHead))
        cc == copyChunkData(r1, dstLen - n, bufferLen - chunkHeaderLen,
                            chunkHeaderLen, fullChunkLen)
    IN  [rd |-> cc.rd, n |-> n + cc.n, err |-> cc.err,
         wr |-> copy(dstLen, bufferHead) \o cc.wr,
         wrIdx |-> copy(dstLen, Range(r.pos, chunkHeaderLen)) \o cc.wrIdx,
         op |-> "forwarded"]

readNextChunk(r, dstLen, choice) ==
    LET hd == readChunkLengthAndType(r)
        fullChunkLen == fullChunkLenOf(hd.chunkLen)
    IN  IF hd.err # "nil"
        THEN [rd |-> hd.rd, n |-> 0, err |-> hd.err,
              wr |-> <<>>, wrIdx |-> <<>>, op |-> "header"]
        ELSE IF hd.chunkTyp = iCCP
        THEN caseICCP(hd.rd, fullChunkLen)
        ELSE IF hd.chunkTyp \in {PLTE, IDAT, IEND}
        THEN caseTerminal(r, hd.rd, dstLen, choice)
        ELSE caseDefault(r, hd.rd, dstLen, fullChunkLen)

\* mutant: the end of the source is returned as (0, nil)
forwardReadSwallowsEOF(r, dstLen, choice) ==
    LET ur == underlyingRead(r.pos, dstLen, choice)
    IN  [rd |-> [r EXCEPT !.pos = ur.pos], n |-> ur.n,
         err |-> IF ur.err = "EOF" THEN "nil" ELSE ur.err,
         wr |-> ur.data, wrIdx |-> Range(r.pos, ur.n), op |-> "done"]

forwardRead(r, dstLen, choice) ==
    LET ur == underlyingRead(r.pos, dstLen, choice)
    IN  [rd |-> [r EXCEPT !.pos = ur.pos], n |-> ur.n, err |-> ur.err,
         wr |-> ur.data, wrIdx |-> Range(r.pos, ur.n), op |-> "done"]

\* mutant: stateDone keeps looking for records
ReadKeepsParsing(r, dstLen, choice) ==
    CASE r.state = stateDone -> readNextChunk(r, dstLen, choice)
      [] r.state = stateReadMagic -> readMagic(r, dstLen)
      [] r.state = stateReadNextChunk -> readNextChunk(r, dstLen, choice)
      [] r.state = stateReadCurrentChunk ->
            copyChunkData(r, dstLen, bufferLen, 0, r.bytesRemaining)

Read(r, dstLen, choice) ==
    CASE r.state = stateDone -> forwardRead(r, dstLen, choice)
      [] r.state = stateReadMagic -> readMagic(r, dstLen)
      [] r.state = stateReadNextChunk -> readNextChunk(r, dstLen, choice)
      [] r.state = stateReadCurrentChunk ->
            copyChunkData(r, dstLen, bufferLen, 0, r.bytesRemaining)

-----------------------------------------------------------------------------
(* The whole-chunk filters: skipReader of main.go and the Reader with an    *)
(* 8-byte buffer.  Both read a record's payload and CRC into a slice of     *)
(* their own and hand it out over as many Read calls as dst needs; PLTE and *)
(* IDAT, not IEND, end the parsing.  They differ in the default case when   *)
(* the payload read fails.  Every method returns [rd, n, err, wr].          *)

\* newSkipReader: a reader [state, bytesRemaining, buffer, pos] with nothing read yet
newSkipReader ==
    [state |-> stateReadMagic, bytesRemaining |-> <<>>, buffer |-> ZeroBuffer,
     pos |-> 0]

skipReader_readMagic(r, dstLen) ==
    LET rf == ReadFull(r.pos, pngMagicLen)
        r1 == [r EXCEPT !.pos = rf.pos, !.buffer = Store(r.buffer, rf.data)]
    IN  IF rf.err # "nil"
        THEN [rd |-> r1, n |-> rf.n, err |-> rf.err, wr |-> <<>>]
        ELSE [rd |-> [r1 EXCEPT !.state = IF r1.buffer # pngMagic
                                          THEN stateDone
                                          ELSE stateReadNextChunk],
              n |-> Len(copy(dstLen, r1.buffer)), err |-> "nil",
              wr |-> copy(dstLen, r1.buffer)]

skipReader_readChunkDef(r) ==
    LET rf == ReadFull(r.pos, chunkHeaderLen)
        r1 == [r EXCEPT !.pos = rf.pos, !.buffer = Store(r.buffer, rf.data)]
    IN  IF rf.err # "nil"
        THEN [rd |-> r1, len |-> [hi |-> 0, lo |-> 0], typ |-> <<>>, err |-> rf.err]
        ELSE [rd |-> r1,
              len |-> BigEndianUint32(SubSeq(r1.buffer, 1, 4)),
              typ |-> SubSeq(r1.buffer, 5, chunkHeaderLen),
              err |-> "nil"]

\* make([]byte, length+crcLen), the sum taken in uint32, then io.ReadFull
skipReader_readChunk(r, length) ==
    LET rf == ReadFull(r.pos, IntOf(AddUint32(length, crcLen)))
        r1 == [r EXCEPT !.pos = rf.pos]
    IN  IF rf.err # "nil"
        THEN [rd |-> r1, buf |-> <<>>, err |-> rf.err]
        ELSE [rd |-> r1, buf |-> rf.data, err |-> "nil"]

\* mutant: the bytes that did not fit dst are not kept for the next call
skipReader_copyChunkDataDropsRest(r, dstLen, src) ==
    [rd |-> [r EXCEPT !.state = stateReadNextChunk, !.bytesRemaining = <<>>],
     m |-> Len(copy(dstLen, src)), wr |-> copy(dstLen, src)]

skipReader_copyChunkData(r, dstLen, src) ==
    LET m == Len(copy(dstLen, src))
    IN  [rd |-> IF m < Len(src)
                THEN [r EXCEPT !.state = stateReadCurrentChunk,
                               !.bytesRemaining = SubSeq(src, m + 1, Len(src))]
                ELSE [r EXCEPT !.state = stateReadNextChunk,
                               !.bytesRemaining = <<>>],
         m |-> m, wr |-> copy(dstLen, src)]

skipReader_readNextChunk(r, dstLen, choice) ==
    LET def == skipReader_readChunkDef(r)
        r1 == def.rd
        n == Len(copy(dstLen, r1.buffer))
    IN  IF def.err # "nil"
        THEN [rd |-> r1, n |-> 0, err |-> def.err, wr |-> <<>>]
        ELSE IF def.typ = iCCP
        THEN LET ch == skipReader_readChunk(r1, def.len)
             IN  [rd |-> [ch.rd EXCEPT !.state = stateDone],
                  n |-> 0, err |-> ch.err, wr |-> <<>>]
        ELSE IF def.typ \in {PLTE, IDAT}
        THEN LET ur == underlyingRead(r1.pos, dstLen - n, choice)
             IN  [rd |-> [r1 EXCEPT !.pos = ur.pos, !.state = stateDone],
                  n |-> n + ur.n, err |-> ur.err,
                  wr |-> copy(dstLen, r1.buffer) \o ur.data]
        ELSE LET ch == skipReader_readChunk(r1, def.len)
                 cc == skipReader_copyChunkData(ch.rd, dstLen - n, ch.buf)
             IN  [rd |-> cc.rd, n |-> n + cc.m, err |-> ch.err,
                  wr |-> copy(dstLen, r1.buffer) \o cc.wr]

skipReader_Read(r, dstLen, choice) ==
    CASE r.state = stateDone ->
            LET ur == underlyingRead(r.pos, dstLen, choice)
            IN  [rd |-> [r EXCEPT !.pos = ur.pos], n |-> ur.n, err |-> ur.err,
                 wr |-> ur.data]
      [] r.state = stateReadMagic -> skipReader_readMagic(r, dstLen)
      [] r.state = stateReadNextChunk -> skipReader_readNextChunk(r, dstLen, choice)
      [] r.state = stateReadCurrentChunk ->
            LET cc == skipReader_copyChunkData(r, dstLen, r.bytesRemaining)
            IN  [rd |-> cc.rd, n |-> cc.m, err |-> "nil", wr |-> cc.wr]

\* NewReader of the 8-byte-buffer Reader: a reader [state, bytesRemaining, buffer, pos] with nothing read yet
wholeChunk_NewReader ==
    [state |-> stateReadMagic, bytesRemaining |-> <<>>, buffer |-> ZeroBuffer,
     pos |-> 0]

wholeChunk_readMagic(r, dstLen) ==
    LET rf == ReadFull(r.pos, pngMagicLen)
        r1 == [r EXCEPT !.pos = rf.pos, !.buffer = Store(r.buffer, rf.data)]
    IN  IF rf.err # "nil"
        THEN [rd |-> r1, n |-> rf.n, err |-> rf.err, wr |-> <<>>]
        ELSE [rd |-> [r1 EXCEPT !.state = IF r1.buffer # pngMagic
                                          THEN stateDone
                                          ELSE stateReadNextChunk],
              n |-> Len(copy(dstLen, r1.buffer)), err |-> "nil",
              wr |-> copy(dstLen, r1.buffer)]

wholeChunk_readChunkDef(r) ==
    LET rf == ReadFull(r.pos, chunkHeaderLen)
        r1 == [r EXCEPT !.pos = rf.pos, !.buffer = Store(r.buffer, rf.data)]
    IN  IF rf.err # "nil"
        THEN [rd |-> r1, len |-> [hi |-> 0, lo |-> 0], typ |-> <<>>, err |-> rf.err]
        ELSE [rd |-> r1,
              len |-> BigEndianUint32(SubSeq(r1.buffer, 1, 4)),
              typ |-> SubSeq(r1.buffer, 5, chunkHeaderLen),
              err |-> "nil"]

\* make([]byte, length+crcLen), the sum taken in uint32, then io.ReadFull
wholeChunk_readChunk(r, length) ==
    LET rf == ReadFull(r.pos, IntOf(AddUint32(length, crcLen)))
        r1 == [r EXCEPT !.pos = rf.pos]
    IN  IF rf.err # "nil"
        THEN [rd |-> r1, buf |-> <<>>, err |-> rf.err]
        ELSE [rd |-> r1, buf |-> rf.data, err |-> "nil"]

wholeChunk_copyChunkData(r, dstLen, src) ==
    LET m == Len(copy(dstLen, src))
    IN  [rd |-> IF m < Len(src)
                THEN [r EXCEPT !.state = stateReadCurrentChunk,
                               !.bytesRemaining = SubSeq(src, m + 1, Len(src))]
                ELSE [r EXCEPT !.state = stateReadNextChunk,
                               !.bytesRemaining = <<>>],
         m |-> m, wr |-> copy(dstLen, src)]

wholeChunk_readNextChunk(r, dstLen, choice) ==
    LET def == wholeChunk_readChunkDef(r)
        r1 == def.rd
        n == Len(copy(dstLen, r1.buffer))
    IN  IF def.err # "nil"
        THEN [rd |-> r1, n |-> 0, err |-> def.err, wr |-> <<>>]
        ELSE IF def.typ = iCCP
        THEN LET ch == wholeChunk_readChunk(r1, def.len)
             IN  [rd |-> [ch.rd EXCEPT !.state = stateDone],
                  n |-> 0, err |-> ch.err, wr |-> <<>>]
        ELSE IF def.typ \in {PLTE, IDAT}
        THEN LET ur == underlyingRead(r1.pos, dstLen - n, choice)
             IN  [rd |-> [r1 EXCEPT !.pos = ur.pos, !.state = stateDone],
                  n |-> n + ur.n, err |-> ur.err,
                  wr |-> copy(dstLen, r1.buffer) \o ur.data]
        ELSE LET ch == wholeChunk_readChunk(r1, def.len)
                 cc == wholeChunk_copyChunkData(ch.rd, dstLen - n, ch.buf)
             IN  IF ch.err # "nil"
                 THEN [rd |-> ch.rd, n |-> n, err |-> ch.err,
                       wr |-> copy(dstLen, r1.buffer)]
                 ELSE [rd |-> cc.rd, n |-> n + cc.m, err |-> "nil",
                       wr |-> copy(dstLen, r1.buffer) \o cc.wr]

wholeChunk_Read(r, dstLen, choice) ==
    CASE r.state = stateDone ->
            LET ur == underlyingRead(r.pos, dstLen, choice)
            IN  [rd |-> [r EXCEPT !.pos = ur.pos], n |-> ur.n, err |-> ur.err,
                 wr |-> ur.data]
      [] r.state = stateReadMagic -> wholeChunk_readMagic(r, dstLen)
      [] r.state = stateReadNextChunk -> wholeChunk_readNextChunk(r, dstLen, choice)
      [] r.state = stateReadCurrentChunk ->
            LET cc == wholeChunk_copyChunkData(r, dstLen, r.bytesRemaining)
            IN  [rd |-> cc.rd, n |-> cc.m, err |-> "nil", wr |-> cc.wr]

-----------------------------------------------------------------------------
(* The inputs the model draws from.  A PNG container is the magic prefix,   *)
(* forwarded (IHDR) records, then possibly a record that ends the parsing   *)
(* (iCCP, PLTE, IDAT or IEND) and records after it, at most MaxChunks       *)
(* records in all, with payloads of 0 or MaxChunkLen bytes.  The other      *)
(* inputs are the truncations of one-record containers, streams that are    *)
(* not PNG, records whose declared length is within 4 of 2^32 (followed by  *)
(* zero bytes, so that every length the Reader parses, wrapped, stays below *)
(* 2^31), and the two record sequences of the test images.                  *)

Payload(len) == [i \in 1..len |-> 200 + i]
Crc == <<0, 0, 0, 7>>
Chunk(typ, len) == PutUint32(len) \o typ \o Payload(len) \o Crc

ForwardedChunks == {Chunk(IHDR, 0), Chunk(IHDR, MaxChunkLen)}
StopChunks ==
    {Chunk(iCCP, 0), Chunk(iCCP, MaxChunkLen), Chunk(PLTE, MaxChunkLen),
     Chunk(IDAT, MaxChunkLen), Chunk(IEND, 0)}
TailChunks == {Chunk(iCCP, MaxChunkLen), Chunk(IEND, 0)}

RECURSIVE Tails(_)
Tails(k) ==
    IF k = 0 THEN {<<>>}
    ELSE Tails(k - 1) \cup {c \o b : c \in TailChunks, b \in Tails(k - 1)}

RECURSIVE Bodies(_)
Bodies(k) ==
    IF k = 0 THEN {<<>>}
    ELSE {<<>>}
         \cup {c \o b : c \in ForwardedChunks, b \in Bodies(k - 1)}
         \cup {c \o b : c \in StopChunks, b \in Tails(k - 1)}

Prefixes(s) == {SubSeq(s, 1, k) : k \in 0..Len(s)}

Containers == {pngMagic \o b : b \in Bodies(MaxChunks)}

Truncated ==
    UNION {Prefixes(pngMagic \o Chunk(t, MaxChunkLen) \o Take(Chunk(IEND, 0), 3))
             : t \in {IHDR, iCCP}}

notMagic == <<137, 80, 78, 71, 13, 10, 26, 11>>
jpegHead == <<255, 216, 255, 224, 0, 16, 74, 70>>
NonPNG ==
    {notMagic, notMagic \o Chunk(iCCP, MaxChunkLen) \o Chunk(IEND, 0),
     jpegHead \o Payload(3)}

Overflowing ==
    {pngMagic \o <<255, 255, 255, 256 - k>> \o t \o <<0, 0, 0>> \o Chunk(IEND, 0)
       : k \in {1, 4}, t \in {IHDR, iCCP}}

\* the shapes of the test images: image.png and image_bad_iccp.png
goodPNG ==
    pngMagic \o Chunk(IHDR, MaxChunkLen) \o Chunk(IDAT, MaxChunkLen) \o Chunk(IEND, 0)
badPNG ==
    pngMagic \o Chunk(IHDR, MaxChunkLen) \o Chunk(iCCP, MaxChunkLen)
             \o Chunk(IDAT, MaxChunkLen) \o Chunk(IEND, 0)

Inputs == Containers \cup Truncated \cup NonPNG \cup Overflowing \cup {goodPNG, badPNG}

BigDst == pngMagicLen + (MaxChunks + 2) * (chunkHeaderLen + MaxChunkLen + crcLen)
DstSizes == {1, chunkHeaderLen, chunkHeaderLen + 2, BigDst}
Choices == {0, 1}

-----------------------------------------------------------------------------
(* State machine: a caller that keeps calling Read with buffers of its      *)
(* choosing.                                                                *)

\* no countReadCloser is in use while the Reader is exercised
NoCounter == [n |-> 0, mutex |-> "none"]

\* no whole-chunk filter runs beside the Reader
NoWhole == [skip |-> newSkipReader, png |-> wholeChunk_NewReader]

NoCall ==
    [op |-> "none", n |-> 0, err |-> "nil", wrN |-> 0, dst |-> 0,
     state |-> stateReadMagic, bytesRemaining |-> 0, pos |-> 0]

\* A source that fails with an I/O error is one that breaks off mid-stream.
Init ==
    /\ input \in Inputs
    /\ srcErr \in {"EOF", "IOErr"}
    /\ srcErr = "IOErr" => input \in Truncated
    /\ rd = NewReader
    /\ out = <<>>
    /\ outIdx = <<>>
    /\ last = NoCall
    /\ magicReads = 0
    /\ allWide = TRUE
    /\ phase = "free"
    /\ first = <<>>
    /\ zeroReads = 0
    /\ cr = NoCounter
    /\ wc = NoWhole

\* One call r.Read(p) with len(p) = dstLen
Call(dstLen, choice) ==
    LET res == Read(rd, dstLen, choice)
    IN  /\ res.op = "magic" => magicReads < MaxMagicReads
        /\ rd' = res.rd
        /\ out' = out \o res.wr
        /\ outIdx' = outIdx \o res.wrIdx
        /\ last' = [op |-> res.op, n |-> res.n, err |-> res.err,
                    wrN |-> Len(res.wr), dst |-> dstLen,
                    state |-> rd.state, bytesRemaining |-> rd.bytesRemaining,
                    pos |-> rd.pos]
        /\ magicReads' = IF res.op = "magic" THEN magicReads + 1 ELSE magicReads
        /\ allWide' = (allWide /\ dstLen >= chunkHeaderLen)
        /\ zeroReads' = IF res.n = 0 /\ res.err = "nil" /\ zeroReads < 2
                        THEN zeroReads + 1 ELSE zeroReads
        /\ UNCHANGED <<input, srcErr>>

ReadMagic ==
    /\ phase = "free" /\ rd.state = stateReadMagic
    /\ \E d \in DstSizes : Call(d, 0)
    /\ UNCHANGED <<phase, first, cr, wc>>

ReadNextChunk ==
    /\ phase = "free" /\ rd.state = stateReadNextChunk
    /\ \E d \in DstSizes, c \in Choices : Call(d, c)
    /\ UNCHANGED <<phase, first, cr, wc>>

ReadCurrentChunk ==
    /\ phase = "free" /\ rd.state = stateReadCurrentChunk
    /\ \E d \in DstSizes : Call(d, 0)
    /\ UNCHANGED <<phase, first, cr, wc>>

ReadDone ==
    /\ phase = "free" /\ rd.state = stateDone
    /\ \E d \in DstSizes, c \in Choices : Call(d, c)
    /\ UNCHANGED <<phase, first, cr, wc>>

Next == ReadMagic \/ ReadNextChunk \/ ReadCurrentChunk \/ ReadDone

Spec == Init /\ [][Next]_vars

-----------------------------------------------------------------------------
(* Comparison run: the whole stream is read with 1-byte buffers, then a     *)
(* fresh Reader over the same input is read with buffers that hold the      *)
(* whole stream.  Each pass ends at the first error Read returns.           *)

InitPair ==
    /\ input \in Inputs
    /\ srcErr \in {"EOF", "IOErr"}
    /\ srcErr = "IOErr" => input \in Truncated
    /\ rd = NewReader
    /\ out = <<>>
    /\ outIdx = <<>>
    /\ last = NoCall
    /\ magicReads = 0
    /\ allWide = TRUE
    /\ phase = "one"
    /\ first = <<>>
    /\ zeroReads = 0
    /\ cr = NoCounter
    /\ wc = NoWhole

PassOne ==
    /\ phase = "one"
    /\ \E c \in Choices : Call(1, c)
    /\ phase' = IF last'.err # "nil" THEN "restart" ELSE "one"
    /\ UNCHANGED <<first, cr, wc>>

Restart ==
    /\ phase = "restart"
    /\ first' = out
    /\ rd' = NewReader
    /\ out' = <<>>
    /\ outIdx' = <<>>
    /\ last' = NoCall
    /\ magicReads' = 0
    /\ allWide' = TRUE
    /\ phase' = "big"
    /\ zeroReads' = 0
    /\ UNCHANGED <<input, srcErr, cr, wc>>

PassBig ==
    /\ phase = "big"
    /\ \E c \in Choices : Call(BigDst, c)
    /\ phase' = IF last'.err # "nil" THEN "compared" ELSE "big"
    /\ UNCHANGED <<first, cr, wc>>

NextPair == PassOne \/ Restart \/ PassBig

SpecPair == InitPair /\ [][NextPair]_vars

-----------------------------------------------------------------------------
(* Long-record run: one forwarded record whose payload is longer than the   *)
(* Reader's buffer, whole or broken off inside the payload, read with       *)
(* buffers of a header, of a part of the payload, and of more than the      *)
(* Reader's buffer.                                                         *)

LongLen == bufferLen + MaxChunkLen
LongPayload == [i \in 1..LongLen |-> i % 251]
longPNG ==
    pngMagic \o PutUint32(LongLen) \o IHDR \o LongPayload \o Crc \o Chunk(IEND, 0)
LongInputs == {longPNG, Take(longPNG, bufferLen \div 2)}
LongDstSizes ==
    {chunkHeaderLen, bufferLen \div 4 - 1, bufferLen + chunkHeaderLen + MaxChunkLen}

InitLong ==
    /\ input \in LongInputs
    /\ srcErr \in {"EOF", "IOErr"}
    /\ srcErr = "IOErr" => input # longPNG
    /\ rd = NewReader
    /\ out = <<>>
    /\ outIdx = <<>>
    /\ last = NoCall
    /\ magicReads = 0
    /\ allWide = TRUE
    /\ phase = "long"
    /\ first = <<>>
    /\ zeroReads = 0
    /\ cr = NoCounter
    /\ wc = NoWhole

ReadLong ==
    /\ phase = "long"
    /\ \E d \in LongDstSizes : Call(d, 0)
    /\ UNCHANGED <<phase, first, cr, wc>>

NextLong == ReadLong

SpecLong == InitLong /\ [][NextLong]_vars

-----------------------------------------------------------------------------
(* countReadCloser: a request body wrapped so that the bytes read from it   *)
(* are counted.  Goroutines call Read, another calls Count, in any          *)
(* interleaving.  Read reads the body outside the mutex, then adds the      *)
(* count to c.n under it (a load and a store); Count reads c.n under the    *)
(* mutex.  Each caller's deferred Unlock runs as it returns.  A goroutine   *)
(* stops calling Read at the first error the body returns.                  *)

MaxBody == 3
Readers == {"r1", "r2"}
BodyErrs == {"nil", "EOF", "IOErr"}

\* &countReadCloser{ReadCloser: r.Body} over a body of size bytes
NewCounter(size) ==
    [n |-> 0, mutex |-> "none", body |-> size,
     pc |-> [t \in Readers |-> "call"],
     ln |-> [t \in Readers |-> 0],
     lerr |-> [t \in Readers |-> "nil"],
     tmp |-> [t \in Readers |-> 0],
     returned |-> 0,
     cpc |-> "call", ret |-> 0, quiet |-> FALSE,
     seen |-> 0, prevSeen |-> 0, final |-> FALSE]

\* mutant: Lock does not wait for the mutex
MutexIgnored(c) == TRUE

\* c.Lock() returns once no one holds the mutex
MutexFree(c) == c.mutex = "none"

Others ==
    <<input, srcErr, rd, out, outIdx, last, magicReads, allWide, phase, first,
      zeroReads, wc>>

InitCount ==
    /\ input = <<>>
    /\ srcErr = "EOF"
    /\ rd = NewReader
    /\ out = <<>>
    /\ outIdx = <<>>
    /\ last = NoCall
    /\ magicReads = 0
    /\ allWide = TRUE
    /\ phase = "count"
    /\ first = <<>>
    /\ zeroReads = 0
    /\ \E size \in 0..MaxBody : cr = NewCounter(size)
    /\ wc = NoWhole

\* n, err = c.ReadCloser.Read(p): k bytes, with end-of-body only at the end
bodyRead ==
    /\ phase = "count"
    /\ \E t \in Readers, k \in 0..cr.body, e \in BodyErrs :
          /\ cr.pc[t] = "call"
          /\ k = 0 => e # "nil"
          /\ e = "EOF" => k = cr.body
          /\ cr' = [cr EXCEPT !.body = cr.body - k, !.ln[t] = k, !.lerr[t] = e,
                              !.pc[t] = "lock"]
    /\ UNCHANGED Others

\* c.Lock() in Read
readLock ==
    /\ phase = "count"
    /\ \E t \in Readers :
          /\ cr.pc[t] = "lock"
          /\ MutexFree(cr)
          /\ cr' = [cr EXCEPT !.mutex = t, !.pc[t] = "load"]
    /\ UNCHANGED Others

\* c.n += int64(n): the load
readLoad ==
    /\ phase = "count"
    /\ \E t \in Readers :
          /\ cr.pc[t] = "load"
          /\ cr' = [cr EXCEPT !.tmp[t] = cr.n, !.pc[t] = "store"]
    /\ UNCHANGED Others

\* c.n += int64(n): the store
readStore ==
    /\ phase = "count"
    /\ \E t \in Readers :
          /\ cr.pc[t] = "store"
          /\ cr' = [cr EXCEPT !.n = cr.tmp[t] + cr.ln[t], !.pc[t] = "unlock"]
    /\ UNCHANGED Others

\* return n, err, with the deferred c.Unlock()
readReturn ==
    /\ phase = "count"
    /\ \E t \in Readers :
          /\ cr.pc[t] = "unlock"
          /\ cr' = [cr EXCEPT !.mutex = "none",
                              !.returned = cr.returned + cr.ln[t],
                              !.pc[t] = IF cr.lerr[t] = "nil" THEN "call" ELSE "done"]
    /\ UNCHANGED Others

\* c.Lock() in Count
countLock ==
    /\ phase = "count"
    /\ cr.cpc = "call"
    /\ MutexFree(cr)
    /\ cr' = [cr EXCEPT !.mutex = "count", !.cpc = "read"]
    /\ UNCHANGED Others

\* return c.n: the value is read; quiet records that every Read had returned
\* for good by then
countLoad ==
    /\ phase = "count"
    /\ cr.cpc = "read"
    /\ cr' = [cr EXCEPT !.ret = cr.n, !.cpc = "unlock",
                        !.quiet = \A t \in Readers : cr.pc[t] = "done"]
    /\ UNCHANGED Others

\* Count returns, with the deferred c.Unlock()
countReturn ==
    /\ phase = "count"
    /\ cr.cpc = "unlock"
    /\ cr' = [cr EXCEPT !.mutex = "none", !.cpc = "call",
                        !.prevSeen = cr.seen, !.seen = cr.ret,
                        !.final = cr.quiet]
    /\ UNCHANGED Others

NextCount ==
    \/ bodyRead \/ readLock \/ readLoad \/ readStore \/ readReturn
    \/ countLock \/ countLoad \/ countReturn

SpecCount == InitCount /\ [][NextCount]_vars

-----------------------------------------------------------------------------
(* Side-by-side run: the Reader, skipReader and the 8-byte-buffer Reader    *)
(* each wrap a source of their own over the same input.  A step gives each  *)
(* of them that has not yet returned an error one Read call with a buffer   *)
(* of the same size; the sources answer alike and end normally.  The        *)
(* inputs are the containers that end with an IEND record, the inputs that  *)
(* are not PNG, down to the empty one, and a container cut inside a         *)
(* forwarded payload.                                                       *)

\* a container with a record after its IEND record
afterIEND ==
    pngMagic \o Chunk(IHDR, MaxChunkLen) \o Chunk(IEND, 0)
             \o Chunk(iCCP, MaxChunkLen) \o Chunk(IEND, 0)

EndsWithIEND(s) ==
    /\ Len(s) >= Len(Chunk(IEND, 0))
    /\ SubSeq(s, Len(s) - Len(Chunk(IEND, 0)) + 1, Len(s)) = Chunk(IEND, 0)

EquivInputs ==
    {s \in Containers : EndsWithIEND(s)}
        \cup NonPNG \cup Prefixes(notMagic)
        \cup {Take(goodPNG, pngMagicLen + chunkHeaderLen + MaxChunkLen)}
        \cup {goodPNG, badPNG, afterIEND}

\* buffers shorter than a header, with room for part of a payload, and large
EquivDstSizes == DstSizes \ {chunkHeaderLen}

NewWhole ==
    [skip |-> newSkipReader, png |-> wholeChunk_NewReader,
     outSkip |-> <<>>, outPng |-> <<>>, errSkip |-> "nil", errPng |-> "nil"]

InitEquiv ==
    /\ input \in EquivInputs
    /\ srcErr = "EOF"
    /\ rd = NewReader
    /\ out = <<>>
    /\ outIdx = <<>>
    /\ last = NoCall
    /\ magicReads = 0
    /\ allWide = TRUE
    /\ phase = "equiv"
    /\ first = <<>>
    /\ zeroReads = 0
    /\ cr = NoCounter
    /\ wc = NewWhole

ReadAll ==
    /\ phase = "equiv"
    /\ last.err = "nil" \/ wc.errSkip = "nil" \/ wc.errPng = "nil"
    /\ \E d \in EquivDstSizes, c \in Choices :
          LET sk == skipReader_Read(wc.skip, d, c)
              pn == wholeChunk_Read(wc.png, d, c)
          IN  /\ IF last.err = "nil"
                 THEN Call(d, c)
                 ELSE UNCHANGED <<input, srcErr, rd, out, outIdx, last,
                                  magicReads, allWide, zeroReads>>
              /\ wc' = [skip |-> IF wc.errSkip = "nil" THEN sk.rd ELSE wc.skip,
                        png |-> IF wc.errPng = "nil" THEN pn.rd ELSE wc.png,
                        outSkip |-> IF wc.errSkip = "nil"
                                    THEN wc.outSkip \o sk.wr ELSE wc.outSkip,
                        outPng |-> IF wc.errPng = "nil"
                                   THEN wc.outPng \o pn.wr ELSE wc.outPng,
                        errSkip |-> IF wc.errSkip = "nil" THEN sk.err
                                    ELSE wc.errSkip,
                        errPng |-> IF wc.errPng = "nil" THEN pn.err
                                   ELSE wc.errPng]
    /\ UNCHANGED <<phase, first, cr>>

NextEquiv == ReadAll

SpecEquiv == InitEquiv /\ [][NextEquiv]_vars

-----------------------------------------------------------------------------
(* The record structure of an input, read off its declared lengths          *)
(* independently of the Reader.  A record is [from, to, typ, whole]: the    *)
(* offsets of its first and last byte, its type, and whether all of its     *)
(* length + 12 bytes are present.  A declared length of 2^31 or more        *)
(* reaches past the end of any input of the model.                          *)

IsPNG == Len(input) >= pngMagicLen /\ SubSeq(input, 1, pngMagicLen) = pngMagic

RECURSIVE RecordsFrom(_)
RecordsFrom(off) ==
    IF off + chunkHeaderLen > Len(input) THEN <<>>
    ELSE LET huge == input[off + 1] >= 128
             len == IF huge THEN 0
                    ELSE IntOf(BigEndianUint32(SubSeq(input, off + 1, off + 4)))
             end == off + chunkHeaderLen + len + crcLen
             whole == ~huge /\ end <= Len(input)
             to == IF whole THEN end ELSE Len(input)
         IN  << [from |-> off + 1, to |-> to, len |-> len, huge |-> huge,
                 typ |-> SubSeq(input, off + 5, off + chunkHeaderLen),
                 whole |-> whole] >> \o RecordsFrom(to)

Records == IF IsPNG THEN RecordsFrom(pngMagicLen) ELSE <<>>

Terminal(typ) == typ \in {PLTE, IDAT, IEND}

\* magic, whole records up to the last byte, the last of them IEND
WellFormed ==
    /\ IsPNG
    /\ Records # <<>>
    /\ \A i \in 1..Len(Records) : Records[i].whole
    /\ Records[Len(Records)].to = Len(input)
    /\ Records[Len(Records)].typ = IEND

ICCPs == {i \in 1..Len(Records) : Records[i].typ = iCCP}

\* the Reader was read until it returned end-of-stream
AtEOF == last.op # "none" /\ last.err = "EOF"

\* s without its bytes from..to
Without(s, from, to) == SubSeq(s, 1, from - 1) \o SubSeq(s, to + 1, Len(s))

-----------------------------------------------------------------------------
(* C1: Passthrough identity.  For an input of at least 8 bytes that does    *)
(* not start with the PNG magic, read to end-of-stream with buffers of any  *)
(* sizes >= 1, the bytes delivered are exactly the input.                   *)
C1_PassthroughIdentity ==
    (phase = "free" /\ Len(input) >= pngMagicLen /\ ~IsPNG /\ AtEOF)
        => out = input

(* C2: Read-size independence.  Reading to the end with 1-byte buffers      *)
(* delivers the same bytes as reading a fresh Reader over the same input    *)
(* with buffers large enough for the whole stream.                          *)
C2_ReadSizeIndependence ==
    phase = "compared" => out = first

\* a well-formed container whose only iCCP record precedes every PLTE/IDAT/IEND
OneICCPFirst ==
    /\ WellFormed
    /\ Cardinality(ICCPs) = 1
    /\ \A i \in ICCPs : \A j \in 1..(i - 1) : ~Terminal(Records[j].typ)

TheICCP == Records[CHOOSE i \in ICCPs : TRUE]

(* C3: Single-discard removal.  For a well-formed container with exactly    *)
(* one iCCP record, before any PLTE/IDAT/IEND record, read to end-of-stream *)
(* with buffers of at least 8 bytes, the bytes delivered are the input      *)
(* without that record's length + 12 bytes.                                 *)
C3_SingleDiscardRemoval ==
    (phase = "free" /\ allWide /\ OneICCPFirst /\ AtEOF)
        => /\ TheICCP.to - TheICCP.from + 1 = TheICCP.len + 12
           /\ out = Without(input, TheICCP.from, TheICCP.to)

C3_Witness ==
    /\ phase = "free" /\ allWide /\ OneICCPFirst /\ AtEOF
    /\ TheICCP.len > 0
    /\ TheICCP.from > pngMagicLen + 1

(* C4: No-discard identity.  For a well-formed container without an iCCP    *)
(* record, read with buffers of at least 8 bytes, the first error Read      *)
(* returns is end-of-stream, and the bytes delivered by then are exactly    *)
(* the input.                                                               *)
C4_NoDiscardIdentity ==
    (phase = "free" /\ allWide /\ WellFormed /\ ICCPs = {} /\ last.err # "nil")
        => last.err = "EOF" /\ out = input

C4_Witness ==
    /\ phase = "free" /\ allWide /\ WellFormed /\ ICCPs = {} /\ AtEOF
    /\ Len(Records) >= 2
    /\ Records[1].typ = IHDR /\ Records[1].len > 0

(* C5: in a matching container no byte of any iCCP record, however many     *)
(* there are and wherever they are, is ever delivered.                      *)
C5_NoICCPByteDelivered ==
    phase = "free" =>
        \A i \in ICCPs : \A k \in 1..Len(outIdx) :
            outIdx[k] < Records[i].from \/ outIdx[k] > Records[i].to

\* the first record that is iCCP, PLTE, IDAT or IEND, if any
FirstStops ==
    {i \in 1..Len(Records) :
        /\ Records[i].typ = iCCP \/ Terminal(Records[i].typ)
        /\ \A j \in 1..(i - 1) :
              ~(Records[j].typ = iCCP \/ Terminal(Records[j].typ))}

\* last offset of the header plus (length + 4) mod 2^32 bytes of a record
DiscardTo(rec) ==
    LET to == rec.from + chunkHeaderLen - 1
                + IntOf(AddUint32(BigEndianUint32(SubSeq(input, rec.from, rec.from + 3)),
                                  crcLen))
    IN  IF to < Len(input) THEN to ELSE Len(input)

(* C5 as amended: no byte of the header and of the following (length + 4)   *)
(* mod 2^32 bytes of an iCCP record that precedes every other iCCP, PLTE,   *)
(* IDAT and IEND record is ever delivered.                                  *)
C5_FirstICCPNeverDelivered ==
    phase = "free" =>
        \A i \in FirstStops :
            Records[i].typ = iCCP =>
                \A k \in 1..Len(outIdx) :
                    outIdx[k] < Records[i].from \/ outIdx[k] > DiscardTo(Records[i])

C5_Witness ==
    /\ phase = "free" /\ AtEOF
    /\ \E i \in FirstStops :
          /\ Records[i].typ = iCCP /\ Records[i].whole /\ Records[i].len > 0
          /\ \E k \in 1..Len(outIdx) : outIdx[k] > Records[i].to
          /\ \E k \in 1..Len(outIdx) : outIdx[k] < Records[i].from

(* C6: for an input shorter than the 8-byte magic the first Read returns    *)
(* an error, and no Read ever reports a positive count or writes a byte.    *)
C6_ShortInputDeliversNothing ==
    (phase = "free" /\ Len(input) < pngMagicLen /\ last.op # "none")
        => last.err # "nil" /\ last.n = 0 /\ out = <<>>

\* the last call returned an error met while reading a header or a payload
SourceErrorCall ==
    /\ phase = "free"
    /\ last.err # "nil"
    /\ last.op \in {"header", "forwarded", "payload", "discard"}

(* C7: a Read that returns a source error met during a header or payload    *)
(* read returns the source's own error and leaves the state tag and the     *)
(* remaining-bytes counter as they were before the call.                    *)
C7_ErrorVerbatimStateFrozen ==
    SourceErrorCall =>
        /\ last.err = srcErr
        /\ rd.state = last.state
        /\ rd.bytesRemaining = last.bytesRemaining

\* bytes the failing io.ReadFull of the last call had read before the error
PartRead ==
    IF last.op = "forwarded" THEN rd.pos - last.pos - chunkHeaderLen
    ELSE rd.pos - last.pos

(* C7 as amended: the error is the source's error, except that an           *)
(* end-of-stream met after part of a header or of a forwarded payload was   *)
(* read is returned as io.ErrUnexpectedEOF; the counter is unchanged and so *)
(* is the state tag, except that an error met while discarding an iCCP      *)
(* record leaves the state at stateDone.                                    *)
C7_ErrorAndStateOnFailure ==
    SourceErrorCall =>
        /\ last.err = IF last.op # "discard" /\ srcErr = "EOF" /\ PartRead > 0
                      THEN "ErrUnexpectedEOF" ELSE srcErr
        /\ rd.bytesRemaining = last.bytesRemaining
        /\ rd.state = IF last.op = "discard" THEN stateDone ELSE last.state

C7_Witness ==
    /\ SourceErrorCall
    /\ last.op = "payload"
    /\ last.state = stateReadCurrentChunk /\ last.bytesRemaining > 1
    /\ last.err = "IOErr"

(* C8: the count every Read returns is the number of bytes it wrote into    *)
(* the caller's buffer in that call.                                        *)
C8_CountIsBytesWritten ==
    (phase = "free" /\ last.op # "none") => last.n = last.wrN

(* C9: stateDone is terminal: a Read made in stateDone leaves the state at  *)
(* stateDone, parses nothing, and returns what one read of the underlying   *)
(* source into the same buffer returns: the next bytes of the source, at    *)
(* least one and at most len(p) of them, or the source's error once it is   *)
(* exhausted.                                                               *)
C9_DoneIsTerminal ==
    (phase = "free" /\ last.op # "none" /\ last.state = stateDone) =>
        /\ rd.state = stateDone
        /\ last.op = "done"
        /\ rd.bytesRemaining = last.bytesRemaining
        /\ rd.pos = last.pos + last.n
        /\ last.wrN = last.n /\ last.n <= last.dst
        /\ SubSeq(out, Len(out) - last.n + 1, Len(out))
              = SubSeq(input, last.pos + 1, last.pos + last.n)
        /\ IF last.pos = Len(input)
           THEN last.n = 0 /\ last.err = srcErr
           ELSE last.n > 0 /\ last.err = "nil"

C9_Witness ==
    /\ phase = "free" /\ last.state = stateDone /\ last.op = "done"
    /\ IsPNG /\ last.n > 1 /\ last.n < last.dst
    /\ \E i \in ICCPs : last.pos + 1 = Records[i].from

(* C10: the magic-prefix read is attempted exactly once, by the first Read, *)
(* and never again, also when Read is called again after an error.          *)
C10_MagicReadOnce ==
    (phase = "free" /\ last.op # "none") => magicReads = 1

(* C10 as amended: the first Read attempts the magic-prefix read; a later   *)
(* Read attempts it exactly when no attempt has succeeded yet (the state is *)
(* still stateReadMagic), and after a successful attempt it is never made   *)
(* again.                                                                   *)
C10_MagicReadUntilSuccess ==
    (phase = "free" /\ last.op # "none") =>
        /\ magicReads >= 1
        /\ (last.op = "magic") <=> (last.state = stateReadMagic)
        /\ rd.state = stateReadMagic <=> (last.op = "magic" /\ last.err # "nil")
        /\ last.state # stateReadMagic => rd.state # stateReadMagic

C10_Witness ==
    /\ phase = "free" /\ magicReads = 2
    /\ last.op = "magic" /\ last.err = "EOF"

(* C11: while a record's payload is being copied (a Read made in            *)
(* stateReadCurrentChunk), every Read with a non-empty buffer that returns  *)
(* no error delivers at least one byte and lowers the remaining-bytes       *)
(* counter by the number of bytes delivered; the state stays                *)
(* stateReadCurrentChunk while the counter is positive and is               *)
(* stateReadNextChunk after the call in which it reaches zero.              *)
C11_RemainingDecreases ==
    (phase = "free" /\ last.op # "none" /\ last.state = stateReadCurrentChunk
       /\ last.dst >= 1 /\ last.err = "nil")
        => /\ last.n >= 1 /\ last.wrN = last.n
           /\ rd.bytesRemaining = last.bytesRemaining - last.n
           /\ rd.bytesRemaining < last.bytesRemaining
           /\ rd.bytesRemaining >= 0
           /\ rd.bytesRemaining > 0 => rd.state = stateReadCurrentChunk
           /\ rd.bytesRemaining = 0 => rd.state = stateReadNextChunk

C11_Witness ==
    /\ phase = "free" /\ last.state = stateReadCurrentChunk /\ last.err = "nil"
    /\ last.dst >= 1 /\ last.bytesRemaining >= 2 /\ last.n >= 1
    /\ rd.bytesRemaining = last.bytesRemaining - last.n
    /\ rd.bytesRemaining > 0 /\ rd.state = stateReadCurrentChunk

(* C12: between Read calls the remaining-bytes counter is nonzero exactly   *)
(* when the state is stateReadCurrentChunk: it is zero in stateReadMagic,   *)
(* stateReadNextChunk and stateDone, and positive in stateReadCurrentChunk. *)
C12_RemainingOnlyWhileCopying ==
    phase = "free" =>
        /\ rd.bytesRemaining # 0 <=> rd.state = stateReadCurrentChunk
        /\ rd.state = stateReadCurrentChunk => rd.bytesRemaining > 0
        /\ rd.state \in {stateReadMagic, stateReadNextChunk, stateDone}
              => rd.bytesRemaining = 0

C12_Witness ==
    /\ phase = "free" /\ rd.state = stateReadNextChunk /\ rd.bytesRemaining = 0
    /\ last.state = stateReadCurrentChunk /\ last.bytesRemaining > 0
    /\ last.err = "nil"

\* The payload-copy step of the last call: the header bytes consumed before
\* it, the counter it starts from, the scratch space it reads into, the room
\* left in dst, the bytes it asks the source for and those it consumed.
StepHead == IF last.op = "forwarded" THEN chunkHeaderLen ELSE 0
StepRemaining ==
    IF last.op = "forwarded"
    THEN fullChunkLenOf(BigEndianUint32(SubSeq(input, last.pos + 1, last.pos + 4)))
    ELSE last.bytesRemaining
StepScratch == bufferLen - StepHead
StepSpace == IF last.dst > StepHead THEN last.dst - StepHead ELSE 0
StepAsk ==
    LET a == IF StepRemaining <= StepScratch THEN StepRemaining ELSE StepScratch
    IN  IF a <= StepSpace THEN a ELSE StepSpace
StepConsumed == rd.pos - last.pos - StepHead
StepFrom == last.pos + StepHead

(* C13 as stated: every payload-copy step consumes exactly min(remaining,   *)
(* scratch capacity, room left in dst) bytes of the source, at most the     *)
(* scratch capacity, and on success delivers that many bytes.               *)
C13_StepConsumesExactlyMin ==
    last.op \in {"forwarded", "payload"} =>
        /\ StepAsk <= StepScratch
        /\ StepConsumed = StepAsk
        /\ last.err = "nil" =>
              last.wrN = (IF StepHead <= last.dst THEN StepHead ELSE last.dst)
                           + StepAsk

(* C13: a payload-copy step asks the source for min(remaining, scratch      *)
(* capacity, room left in dst) bytes, never more than the scratch capacity  *)
(* whatever length the record declares.  When the source supplies them the  *)
(* step consumes exactly those bytes and delivers exactly them to dst in    *)
(* the same call, so none is held for a later call; when the source ends or *)
(* fails first, the step consumes the fewer bytes the source had.           *)
C13_StepIsMinAndDelivered ==
    last.op \in {"forwarded", "payload"} =>
        /\ StepAsk <= StepScratch
        /\ StepConsumed >= 0 /\ StepConsumed <= StepAsk
        /\ last.err = "nil" =>
              /\ StepConsumed = StepAsk
              /\ last.wrN = (IF StepHead <= last.dst THEN StepHead ELSE last.dst)
                              + StepAsk
              /\ Len(out) >= StepAsk
              /\ SubSeq(outIdx, Len(outIdx) - StepAsk + 1, Len(outIdx))
                    = Range(StepFrom, StepAsk)
              /\ SubSeq(out, Len(out) - StepAsk + 1, Len(out))
                    = SubSeq(input, StepFrom + 1, StepFrom + StepAsk)
        /\ last.err # "nil" =>
              /\ StepConsumed < StepAsk
              /\ rd.pos = Len(input)

\* a step in which the scratch capacity is the smallest of the three
C13_Witness ==
    /\ last.op \in {"forwarded", "payload"} /\ last.err = "nil"
    /\ StepAsk = StepScratch
    /\ StepScratch < StepRemaining /\ StepScratch < StepSpace
    /\ StepConsumed = StepScratch

\* the length declared by the header the last call read, as bytes of input
DeclaredHuge == input[last.pos + 1] >= 128
DeclaredLen == IntOf(BigEndianUint32(SubSeq(input, last.pos + 1, last.pos + 4)))

(* C14: for every unsigned 32-bit declared length, including those within 4 *)
(* of 2^32, the bytes consumed after the header of a forwarded or discarded *)
(* record are length + 4, without wrap-around: a call that read the header  *)
(* and returned no error has consumed, or left on the counter, length + 4   *)
(* bytes in all (a length of 2^31 or more is beyond every input here, so    *)
(* such a call would not return without error).                             *)
C14_ConsumesLengthPlusCrc ==
    (last.op \in {"discard", "forwarded"} /\ last.err = "nil")
        => /\ ~DeclaredHuge
           /\ (rd.pos - last.pos - chunkHeaderLen) + rd.bytesRemaining
                 = DeclaredLen + crcLen

\* offsets of the delivered bytes that lie at or after offset from
DeliveredFrom(from) == SelectSeq(outIdx, LAMBDA x : x >= from)

(* C15: the Read call that consumes the first iCCP record, whether the      *)
(* discard succeeds or the source fails in it, delivers no byte and leaves  *)
(* the state at stateDone.  From then on the bytes delivered are the input  *)
(* bytes that follow the discarded bytes, consecutively, in order and       *)
(* unchanged, up to what the source has supplied, all of them once          *)
(* end-of-stream is returned; nothing is parsed, so a later iCCP record is  *)
(* among them.                                                              *)
C15_AfterDiscardPassThrough ==
    phase = "free" =>
        /\ last.op = "discard" =>
              /\ last.n = 0 /\ last.wrN = 0
              /\ rd.state = stateDone
        /\ \A i \in FirstStops :
              (Records[i].typ = iCCP /\ rd.pos >= Records[i].from) =>
                  /\ rd.state = stateDone
                  /\ rd.pos >= DiscardTo(Records[i])
                  /\ DeliveredFrom(Records[i].from)
                        = Range(DiscardTo(Records[i]), rd.pos - DiscardTo(Records[i]))
                  /\ \A k \in 1..Len(out) : out[k] = input[outIdx[k]]
                  /\ AtEOF => rd.pos = Len(input)

\* a second iCCP record has been delivered whole after the first was discarded
C15_Witness ==
    /\ phase = "free" /\ rd.state = stateDone
    /\ \E i \in FirstStops, j \in ICCPs :
          /\ Records[i].typ = iCCP /\ j > i /\ Records[j].whole
          /\ rd.pos >= Records[j].to
          /\ SubSeq(out, Len(out) - (rd.pos - Records[j].from), 
                    Len(out) - (rd.pos - Records[j].to))
                = SubSeq(input, Records[j].from, Records[j].to)

(* C16: when the header just read has type PLTE, IDAT or IEND, the same     *)
(* Read call delivers the 8 header bytes followed by the bytes of one raw   *)
(* read of the source, and the state becomes stateDone; the input bytes     *)
(* after the header are delivered in order, unparsed.                       *)
C16_TerminalHeaderForwarded ==
    (phase = "free" /\ last.op = "terminal") =>
        /\ rd.state = stateDone
        /\ last.wrN >= chunkHeaderLen
        /\ SubSeq(out, Len(out) - last.wrN + 1, Len(out))
              = SubSeq(input, last.pos + 1, rd.pos)

(* C17: for an input that does not begin with the magic prefix the state is *)
(* never stateReadNextChunk or stateReadCurrentChunk: it goes from          *)
(* stateReadMagic to stateDone in the call that reads the 8 bytes, and no   *)
(* record header is ever read.                                              *)
C17_NonPNGNeverParsed ==
    (phase = "free" /\ ~IsPNG) =>
        /\ rd.state \in {stateReadMagic, stateDone}
        /\ last.state \in {stateReadMagic, stateDone}
        /\ last.op \in {"none", "magic", "done"}
        /\ (last.op = "magic" /\ last.err = "nil") => rd.state = stateDone
        /\ rd.bytesRemaining = 0

\* a stream with a record after a wrong magic was read to its end
C17_Witness ==
    /\ phase = "free" /\ ~IsPNG /\ Len(input) > pngMagicLen + chunkHeaderLen
    /\ SubSeq(input, pngMagicLen + 5, pngMagicLen + chunkHeaderLen) = iCCP
    /\ rd.state = stateDone /\ last.op = "done" /\ rd.pos = Len(input)

(* C18: a Read in stateReadNextChunk that finds fewer than 8 bytes left in  *)
(* the source (none included) returns 0 and an error, delivers none of the  *)
(* header bytes it read, and leaves the state at stateReadNextChunk.        *)
C18_ShortHeaderDeliversNothing ==
    (phase = "free" /\ last.op # "none" /\ last.state = stateReadNextChunk
       /\ Len(input) - last.pos < chunkHeaderLen)
        => /\ last.op = "header"
           /\ last.n = 0 /\ last.wrN = 0
           /\ last.err # "nil"
           /\ rd.state = stateReadNextChunk /\ rd.bytesRemaining = 0
           /\ rd.pos = Len(input)

\* part of a header was left in the source
C18_Witness ==
    /\ phase = "free" /\ last.op = "header" /\ last.state = stateReadNextChunk
    /\ Len(input) - last.pos \in 1..(chunkHeaderLen - 1)
    /\ last.n = 0 /\ last.err # "nil" /\ rd.state = stateReadNextChunk
    /\ Len(out) > 0

(* C19: with non-empty buffers a Read returns zero bytes and no error at    *)
(* most once per stream, and only in the call that discards an iCCP record; *)
(* every other call that returns no error consumes at least one byte of the *)
(* source, whose offset never passes the end of the input.  The error-free  *)
(* calls are therefore at most the input's length plus one, after which a   *)
(* Read returns end-of-stream or an error.                                  *)
C19_ZeroReadAtMostOnce ==
    (phase = "free" /\ last.op # "none") =>
        /\ last.dst >= 1
        /\ zeroReads <= 1
        /\ (last.n = 0 /\ last.err = "nil")
              => (last.op = "discard" /\ zeroReads = 1)
        /\ last.err = "nil" => rd.pos > last.pos
        /\ (last.err = "nil" /\ last.op # "discard") => last.n >= 1
        /\ rd.pos <= Len(input)

\* a stream with a discarded record was read to end-of-stream
C19_Witness ==
    /\ phase = "free" /\ zeroReads = 1 /\ AtEOF
    /\ rd.state = stateDone /\ rd.pos = Len(input) /\ Len(out) > pngMagicLen

\* byte counts added to c.n by Reads that have not returned yet
RECURSIVE Pending(_)
Pending(T) ==
    IF T = {} THEN 0
    ELSE LET t == CHOOSE x \in T : TRUE
         IN  (IF cr.pc[t] = "unlock" THEN cr.ln[t] ELSE 0) + Pending(T \ {t})

(* C20: under every interleaving of Read and Count calls on a               *)
(* countReadCloser, the values Count returns never decrease, no increment   *)
(* is lost (c.n is the sum of the byte counts of the Reads that have        *)
(* returned or have done their addition), and a Count made once every Read  *)
(* has returned is the sum of the byte counts the Reads returned, those     *)
(* returned together with an error included.                                *)
C20_CountIsSumOfReads ==
    phase = "count" =>
        /\ cr.prevSeen <= cr.seen
        /\ cr.seen <= cr.ret /\ cr.ret <= cr.n
        /\ cr.n = cr.returned + Pending(Readers)
        /\ (\A t \in Readers : cr.pc[t] \in {"call", "lock", "done"})
              => cr.n = cr.returned
        /\ cr.final => cr.seen = cr.returned

\* both goroutines have read bytes, one of them with its error, and a Count
\* made after they had all returned gave the sum
C20_Witness ==
    /\ phase = "count" /\ cr.final /\ cr.seen = MaxBody
    /\ cr.prevSeen > 0 /\ cr.prevSeen < cr.seen
    /\ \A t \in Readers : cr.pc[t] = "done" /\ cr.ln[t] > 0

\* the three filters have each returned their first error
AllEnded ==
    /\ phase = "equiv"
    /\ last.err # "nil" /\ wc.errSkip # "nil" /\ wc.errPng # "nil"

\* a well-formed container whose IEND record is its last and only one
OneIEND ==
    /\ WellFormed
    /\ \A i \in 1..(Len(Records) - 1) : Records[i].typ # IEND

====
